---- MODULE Spec2Model ----
(***************************************************************************)
(* A model of the diff parsing and prompt construction pipeline of the     *)
(* pull-request reviewer: app/utils/diff_parser.py (DiffParser) and        *)
(* app/utils/prompt_formatter.py (PromptFormatter).                         *)
(*                                                                         *)
(* Text is modelled as a sequence of one-character strings, so that the    *)
(* prefix tests, the two regular expressions, int(), str(), lower() and    *)
(* ', '.join() are computed character by character, as the code does.      *)
(*                                                                         *)
(* Python objects that are shared by reference (the dict of a file, which  *)
(* parse_diff holds in current_file and also appends to files) live in     *)
(* heap; files and current_file hold references (indices into heap).       *)
(***************************************************************************)
EXTENDS Integers, Sequences, FiniteSets, TLC

VARIABLES
    lines,          \* the items of diff_content.split('\n') the loop has taken so far
    heap,           \* the file dicts created so far, by reference
    files,          \* parse_diff's list `files`: a sequence of references into heap
    current_file,   \* parse_diff's `current_file`: a reference, or None
    pc,             \* "loop" | "returned" | "raised" : where parse_diff is
    call,           \* the DiffParser / PromptFormatter call made on the result
    result,         \* what that call returned
    request,        \* the POST /webhook request handle_github_webhook was last called with
    response,       \* how that call ended: the response sent, or the exception it left with
    background_tasks,   \* the review tasks added and not yet started: their github_payload
    task,           \* the process_pull_request_review task that runs: its position and locals
    steps           \* the calls that task has made to its collaborators, in order

\* the state of the parser and of the calls on its result
parser_vars == <<lines, heap, files, current_file, pc, call, result>>

\* the state of the webhook route and of the review task
webhook_vars == <<request, response, background_tasks, task, steps>>

vars == <<lines, heap, files, current_file, pc, call, result,
          request, response, background_tasks, task, steps>>

----------------------------------------------------------------------------
(* Bounds of the model *)

MaxLines == 4         \* lines of diff text
MaxMinChanges == 3    \* largest min_changes passed to filter_significant_changes
MaxContext == 2       \* largest context_lines passed to extract_context_lines

----------------------------------------------------------------------------
(* Text *)

None == 0

Digits == <<"0", "1", "2", "3", "4", "5", "6", "7", "8", "9">>

IsDigit(c) == \E d \in 1..10 : Digits[d] = c

DigitValue(c) == (CHOOSE d \in 1..10 : Digits[d] = c) - 1

SetMin(S) == CHOOSE x \in S : \A y \in S : x <= y

SetMax(S) == CHOOSE x \in S : \A y \in S : x >= y

\* s.startswith(p)
StartsWith(s, p) == Len(s) >= Len(p) /\ SubSeq(s, 1, Len(p)) = p

\* the literal p occurs in s at position k
MatchAt(s, p, k) == k >= 1 /\ k + Len(p) - 1 <= Len(s) /\ SubSeq(s, k, k + Len(p) - 1) = p

\* s[1:]
Tail1(s) == SubSeq(s, 2, Len(s))

\* the length of the longest run of digits of s that starts at position k
DigitRun(s, k) ==
    SetMin({ j \in k..(Len(s) + 1) : j > Len(s) \/ ~IsDigit(s[j]) }) - k

\* int(s) raises ValueError for a string of more digits than this: the default of
\* sys.int_info.max_str_digits of the interpreter
IntMaxStrDigits == 4300

RECURSIVE DigitsValue(_)
DigitsValue(s) ==
    IF s = <<>> THEN 0
    ELSE 10 * DigitsValue(SubSeq(s, 1, Len(s) - 1)) + DigitValue(s[Len(s)])

\* int(s): the value of a string of digits; int('') raises ValueError, and so does
\* a string longer than the interpreter converts
PyInt(s) ==
    IF s = <<>> \/ Len(s) > IntMaxStrDigits THEN [raised |-> TRUE, val |-> 0]
    ELSE IF \E k \in 1..Len(s) : ~IsDigit(s[k]) THEN [raised |-> TRUE, val |-> 0]
    ELSE [raised |-> FALSE, val |-> DigitsValue(s)]

\* str(n) of a non-negative integer
RECURSIVE PyStr(_)
PyStr(n) ==
    IF n < 10 THEN <<Digits[n + 1]>>
    ELSE PyStr(n \div 10) \o <<Digits[(n % 10) + 1]>>

Upper == <<"A", "B", "C", "D", "E", "F", "G", "H", "I", "J", "K", "L", "M",
           "N", "O", "P", "Q", "R", "S", "T", "U", "V", "W", "X", "Y", "Z">>

Lower == <<"a", "b", "c", "d", "e", "f", "g", "h", "i", "j", "k", "l", "m",
           "n", "o", "p", "q", "r", "s", "t", "u", "v", "w", "x", "y", "z">>

LowerChar(c) ==
    IF \E k \in 1..26 : Upper[k] = c
    THEN Lower[CHOOSE k \in 1..26 : Upper[k] = c]
    ELSE c

\* s.lower()
PyLower(s) == [k \in 1..Len(s) |-> LowerChar(s[k])]

\* sep.join(parts)
RECURSIVE PyJoin(_, _)
PyJoin(sep, parts) ==
    IF parts = <<>> THEN <<>>
    ELSE IF Len(parts) = 1 THEN parts[1]
    ELSE parts[1] \o sep \o PyJoin(sep, Tail(parts))

\* text.split(c) for a one-character separator: never empty, '' gives ['']
RECURSIVE PySplit(_, _)
PySplit(text, c) ==
    IF \A k \in 1..Len(text) : text[k] # c THEN <<text>>
    ELSE <<SubSeq(text, 1, SetMin({ j \in 1..Len(text) : text[j] = c }) - 1)>>
         \o PySplit(SubSeq(text, SetMin({ j \in 1..Len(text) : text[j] = c }) + 1, Len(text)), c)

----------------------------------------------------------------------------
(* The literals of the code *)

DiffGitPrefix == <<"d", "i", "f", "f", " ", "-", "-", "g", "i", "t">>
DiffGitHead == <<"d", "i", "f", "f", " ", "-", "-", "g", "i", "t", " ", "a", "/">>
DiffGitMid == <<" ", "b", "/">>
PlusPlusPlus == <<"+", "+", "+">>
MinusMinusMinus == <<"-", "-", "-">>
AtAt == <<"@", "@">>
HunkOpen == <<"@", "@", " ", "-">>
HunkPlus == <<" ", "+">>
HunkClose == <<" ", "@", "@">>
NoDescription == <<"N", "o", " ", "d", "e", "s", "c", "r", "i", "p", "t", "i", "o", "n", " ",
                   "p", "r", "o", "v", "i", "d", "e", "d">>
MixedText == <<"M", "i", "x", "e", "d">>
CommaSpace == <<",", " ">>

----------------------------------------------------------------------------
(* The lines the diff text is made of *)

LineDiffX == <<"d", "i", "f", "f", " ", "-", "-", "g", "i", "t", " ", "a", "/", "x", ".", "p", "y",
               " ", "b", "/", "x", ".", "p", "y">>
LineDiffRemoved == <<"d", "i", "f", "f", " ", "-", "-", "g", "i", "t", " ", "a", "/", "y", ".", "P", "Y",
                     " ", "b", "/">>
LineDiffNoExt == <<"d", "i", "f", "f", " ", "-", "-", "g", "i", "t", " ", "a", "/", "n", " ", "b", "/", "n">>
LineDiffBad == <<"d", "i", "f", "f", " ", "-", "-", "g", "i", "t", " ", "x">>
LineMinusHeader == <<"-", "-", "-", " ", "a", "/", "x", ".", "p", "y">>
LinePlusHeader == <<"+", "+", "+", " ", "b", "/", "x", ".", "p", "y">>
LineHunkFull == <<"@", "@", " ", "-", "1", ",", "2", " ", "+", "1", ",", "3", " ", "@", "@">>
LineHunkShort == <<"@", "@", " ", "-", "5", " ", "+", "7", ",", "0", " ", "@", "@", " ", "f">>
LineHunkBad == <<"@", "@", " ", "b", "a", "d">>
LineAdd == <<"+", "n", "e", "w">>
LineDel == <<"-", "o", "l", "d">>
LineCtx == <<" ", "c", "t", "x">>
LineEmpty == <<>>

\* a hunk header '@@ -11...1 +1 @@' whose first number has one digit more than
\* int() converts
LineHunkHuge ==
    HunkOpen \o [k \in 1..(IntMaxStrDigits + 1) |-> "1"] \o <<" ", "+", "1", " ", "@", "@">>

\* every shape of line parse_diff tells apart
ParserLines ==
    { LineDiffX, LineDiffRemoved, LineDiffBad, LineMinusHeader, LinePlusHeader,
      LineHunkFull, LineHunkShort, LineHunkBad, LineAdd, LineDel, LineCtx, LineEmpty }

\* lines among which a hunk header has a number too long for int()
LongNumberLines ==
    { LineDiffX, LineMinusHeader, LineHunkShort, LineHunkHuge, LineAdd, LineEmpty }

----------------------------------------------------------------------------
(* DiffParser._parse_hunk_header and the 'diff --git' pattern *)

NoMatch == [matched |-> FALSE, groups |-> <<>>]

\* re.search(r'diff --git a/(.*) b/(.*)', line): the leftmost start, each (.*) greedy,
\* so the first group runs to the last ' b/' of the line
DiffGitSearch(line) ==
    LET mids(p) == { q \in (p + Len(DiffGitHead))..Len(line) : MatchAt(line, DiffGitMid, q) }
        starts == { p \in 1..Len(line) : MatchAt(line, DiffGitHead, p) /\ mids(p) # {} }
    IN  IF starts = {} THEN NoMatch
        ELSE LET p == SetMin(starts)
                 q == SetMax(mids(p))
             IN  [matched |-> TRUE,
                  groups |-> << SubSeq(line, p + Len(DiffGitHead), q - 1),
                                SubSeq(line, q + Len(DiffGitMid), Len(line)) >>]

\* the position after the digits (\d+ or \d*, greedy) that start at position k
DigitsEnd(line, k) == k + DigitRun(line, k)

\* the position after the optional comma (,?) at position k
CommaEnd(line, k) == IF k <= Len(line) /\ line[k] = "," THEN k + 1 ELSE k

\* the hunk pattern with its groups at [s1, e1), [s2, e2), [s3, e3), [s4, e4)
HunkGroups(line, p, s1, e1, s2, e2, s3, e3, s4, e4) ==
    IF /\ MatchAt(line, HunkOpen, p)
       /\ e1 > s1
       /\ MatchAt(line, HunkPlus, e2)
       /\ e3 > s3
       /\ MatchAt(line, HunkClose, e4)
    THEN [matched |-> TRUE,
          groups |-> << SubSeq(line, s1, e1 - 1), SubSeq(line, s2, e2 - 1),
                        SubSeq(line, s3, e3 - 1), SubSeq(line, s4, e4 - 1) >>]
    ELSE NoMatch

HunkNew(line, p, s1, e1, s2, e2, s3, e3) ==
    HunkGroups(line, p, s1, e1, s2, e2, s3, e3,
               CommaEnd(line, e3), DigitsEnd(line, CommaEnd(line, e3)))

HunkOld(line, p, s1, e1) ==
    HunkNew(line, p, s1, e1,
            CommaEnd(line, e1), DigitsEnd(line, CommaEnd(line, e1)),
            DigitsEnd(line, CommaEnd(line, e1)) + Len(HunkPlus),
            DigitsEnd(line, DigitsEnd(line, CommaEnd(line, e1)) + Len(HunkPlus)))

\* r'@@ -(\d+),?(\d*) \+(\d+),?(\d*) @@' matched with its first character at p: each
\* group is the longest run of digits there, no other split of the digits can match
HunkMatchAt(line, p) ==
    HunkOld(line, p, p + Len(HunkOpen), DigitsEnd(line, p + Len(HunkOpen)))

\* re.search of the hunk pattern: the leftmost position where it matches
HunkSearch(line) ==
    LET starts == { p \in 1..Len(line) : HunkMatchAt(line, p).matched }
    IN  IF starts = {} THEN NoMatch ELSE HunkMatchAt(line, SetMin(starts))

EmptyDict == <<>>

\* DiffParser._parse_hunk_header(line); raised: an int() of it raised ValueError
parse_hunk_header(line) ==
    LET match == HunkSearch(line)
        count(g) == IF g # <<>> THEN PyInt(g) ELSE [raised |-> FALSE, val |-> 1]
    IN  IF match.matched
        THEN LET a == PyInt(match.groups[1])
                 b == count(match.groups[2])
                 c == PyInt(match.groups[3])
                 d == count(match.groups[4])
             IN  [raised |-> a.raised \/ b.raised \/ c.raised \/ d.raised,
                  info |-> [old_start |-> a.val, old_count |-> b.val,
                            new_start |-> c.val, new_count |-> d.val]]
        ELSE [raised |-> FALSE, info |-> EmptyDict]

----------------------------------------------------------------------------
(* DiffParser.parse_diff *)

\* the locals of parse_diff before its loop
ParseStart == [heap |-> <<>>, files |-> <<>>, current_file |-> None, raised |-> FALSE]

NewFile(match) ==
    [old_path |-> match.groups[1], new_path |-> match.groups[2],
     changes |-> <<>>, additions |-> 0, deletions |-> 0]

\* the mutant of the chain that tests for an open hunk before the '+++' / '---' test
ArmHunkLinesFirst(st, line) ==
    IF StartsWith(line, DiffGitPrefix) THEN "diff_git"
    ELSE IF StartsWith(line, AtAt) THEN "hunk_header"
    ELSE IF st.current_file # None /\ st.heap[st.current_file].changes # <<>> THEN "code"
    ELSE IF StartsWith(line, PlusPlusPlus) \/ StartsWith(line, MinusMinusMinus) THEN "path_header"
    ELSE "none"

\* which arm of the if / elif chain of the loop body takes the line
Arm(st, line) ==
    IF StartsWith(line, DiffGitPrefix) THEN "diff_git"
    ELSE IF StartsWith(line, PlusPlusPlus) \/ StartsWith(line, MinusMinusMinus) THEN "path_header"
    ELSE IF StartsWith(line, AtAt) THEN "hunk_header"
    ELSE IF st.current_file # None /\ st.heap[st.current_file].changes # <<>> THEN "code"
    ELSE "none"

\* if line.startswith('diff --git'): append the current file, start a new one on a match
DiffGitArm(st, line) ==
    LET appended == IF st.current_file # None
                    THEN Append(st.files, st.current_file)
                    ELSE st.files
        match == DiffGitSearch(line)
    IN  IF match.matched
        THEN [st EXCEPT !.files = appended,
                        !.heap = Append(st.heap, NewFile(match)),
                        !.current_file = Len(st.heap) + 1]
        ELSE [st EXCEPT !.files = appended]

\* elif line.startswith('@@'): a new hunk on the current file, if there is one
HunkHeaderArm(st, line) ==
    IF st.current_file # None
    THEN LET hunk_info == parse_hunk_header(line)
             f == st.current_file
         IN  IF hunk_info.raised THEN [st EXCEPT !.raised = TRUE]
             ELSE [st EXCEPT !.heap[f].changes =
                        Append(@, [type |-> "hunk", info |-> hunk_info.info, lines |-> <<>>])]
    ELSE st

\* the mutant of the code arm that counts a deletion as an addition
CodeArmMiscounts(st, line) ==
    LET f == st.current_file
        last == Len(st.heap[f].changes)
        add(type) == [st.heap[f] EXCEPT !.changes[last].lines =
                          Append(@, [type |-> type, content |-> Tail1(line)])]
    IN  IF StartsWith(line, <<"+">>)
        THEN [st EXCEPT !.heap[f] = [add("addition") EXCEPT !.additions = @ + 1]]
        ELSE IF StartsWith(line, <<"-">>)
        THEN [st EXCEPT !.heap[f] = [add("deletion") EXCEPT !.additions = @ + 1]]
        ELSE IF StartsWith(line, <<" ">>)
        THEN [st EXCEPT !.heap[f] = add("context")]
        ELSE st

\* elif current_file and current_file['changes']: the line goes to the last hunk
CodeArm(st, line) ==
    LET f == st.current_file
        last == Len(st.heap[f].changes)
        add(type) == [st.heap[f] EXCEPT !.changes[last].lines =
                          Append(@, [type |-> type, content |-> Tail1(line)])]
    IN  IF StartsWith(line, <<"+">>)
        THEN [st EXCEPT !.heap[f] = [add("addition") EXCEPT !.additions = @ + 1]]
        ELSE IF StartsWith(line, <<"-">>)
        THEN [st EXCEPT !.heap[f] = [add("deletion") EXCEPT !.deletions = @ + 1]]
        ELSE IF StartsWith(line, <<" ">>)
        THEN [st EXCEPT !.heap[f] = add("context")]
        ELSE st

\* one iteration of `for line in lines`
LoopBody(st, line) ==
    LET arm == Arm(st, line)
    IN  IF arm = "diff_git" THEN DiffGitArm(st, line)
        ELSE IF arm = "hunk_header" THEN HunkHeaderArm(st, line)
        ELSE IF arm = "code" THEN CodeArm(st, line)
        ELSE st

\* after the loop: if current_file: files.append(current_file)
Flush(st) ==
    IF st.current_file # None
    THEN [st EXCEPT !.files = Append(st.files, st.current_file)]
    ELSE st

RECURSIVE ParseLoop(_, _)
ParseLoop(st, ls) ==
    IF ls = <<>> \/ st.raised THEN st
    ELSE ParseLoop(LoopBody(st, Head(ls)), Tail(ls))

\* DiffParser.parse_diff(diff_content) as a function of the text: the heap it built,
\* the list it returns, and whether it raised
parse_diff(diff_content) ==
    LET st == ParseLoop(ParseStart, PySplit(diff_content, "\n"))
    IN  IF st.raised THEN st ELSE Flush(st)

----------------------------------------------------------------------------
(* parse_diff, one line at a time *)

Locals == [heap |-> heap, files |-> files, current_file |-> current_file, raised |-> FALSE]

NoCall == [op |-> "none"]

\* no request handled yet, no review task running
NoRequest == [method |-> "none"]

NoResponse == [status |-> 0, detail |-> ""]

NoTask == [pc |-> "none"]

Init ==
    /\ lines = <<>>
    /\ heap = <<>>
    /\ files = <<>>
    /\ current_file = None
    /\ pc = "loop"
    /\ call = NoCall
    /\ result = <<>>
    /\ request = NoRequest
    /\ response = NoResponse
    /\ background_tasks = <<>>
    /\ task = NoTask
    /\ steps = <<>>

\* the loop has taken `line` and its body has left the locals as st
Taken(line, st) ==
    /\ lines' = Append(lines, line)
    /\ heap' = st.heap
    /\ files' = st.files
    /\ current_file' = st.current_file
    /\ pc' = IF st.raised THEN "raised" ELSE "loop"
    /\ UNCHANGED <<call, result>>
    /\ UNCHANGED webhook_vars

\* the next line starts with 'diff --git'
DiffGitLine(L) ==
    /\ pc = "loop"
    /\ Len(lines) < MaxLines
    /\ \E line \in L :
         /\ Arm(Locals, line) = "diff_git"
         /\ Taken(line, LoopBody(Locals, line))

\* the next line starts with '+++' or '---': continue
PathHeaderLine(L) ==
    /\ pc = "loop"
    /\ Len(lines) < MaxLines
    /\ \E line \in L :
         /\ Arm(Locals, line) = "path_header"
         /\ Taken(line, LoopBody(Locals, line))

\* the next line starts with '@@'
HunkHeaderLine(L) ==
    /\ pc = "loop"
    /\ Len(lines) < MaxLines
    /\ \E line \in L :
         /\ Arm(Locals, line) = "hunk_header"
         /\ Taken(line, LoopBody(Locals, line))

\* any other line while the current file has a hunk
CodeLine(L) ==
    /\ pc = "loop"
    /\ Len(lines) < MaxLines
    /\ \E line \in L :
         /\ Arm(Locals, line) = "code"
         /\ Taken(line, LoopBody(Locals, line))

\* any other line while there is no current file, or it has no hunk: no arm takes it
DroppedLine(L) ==
    /\ pc = "loop"
    /\ Len(lines) < MaxLines
    /\ \E line \in L :
         /\ Arm(Locals, line) = "none"
         /\ Taken(line, LoopBody(Locals, line))

\* the loop is over (split gives at least one line): flush and return files
EndOfInput ==
    /\ pc = "loop"
    /\ Len(lines) >= 1
    /\ files' = Flush(Locals).files
    /\ pc' = "returned"
    /\ UNCHANGED <<lines, heap, current_file, call, result>>
    /\ UNCHANGED webhook_vars

ParseNext(L) ==
    \/ DiffGitLine(L)
    \/ PathHeaderLine(L)
    \/ HunkHeaderLine(L)
    \/ CodeLine(L)
    \/ DroppedLine(L)
    \/ EndOfInput

Next == ParseNext(ParserLines)

Spec == Init /\ [][Next]_vars

NextLongNumber == ParseNext(LongNumberLines)

SpecLongNumber == Init /\ [][NextLongNumber]_vars

----------------------------------------------------------------------------
(* DiffParser.get_total_changes *)

\* d.get(key, default)
DictGet(d, key, default) == IF key \in DOMAIN d THEN d[key] ELSE default

RECURSIVE SumField(_, _, _)
SumField(h, fs, key) ==
    IF fs = <<>> THEN 0
    ELSE DictGet(h[Head(fs)], key, 0) + SumField(h, Tail(fs), key)

\* DiffParser.get_total_changes(files), files being references into h
get_total_changes(h, fs) == <<SumField(h, fs, "additions"), SumField(h, fs, "deletions")>>

----------------------------------------------------------------------------
(* DiffParser.get_file_extensions, filter_significant_changes, extract_context_lines *)

\* file.get('new_path', file.get('old_path', ''))
PathOf(f) == DictGet(f, "new_path", DictGet(f, "old_path", <<>>))

\* '.' in path
HasDot(path) == \E k \in 1..Len(path) : path[k] = "."

\* path.split('.')[-1].lower()
ExtensionOf(path) == PyLower(PySplit(path, ".")[Len(PySplit(path, "."))])

\* list(S): the elements of a set in the order its iteration gives, which the
\* language leaves to the hashes of the elements
RECURSIVE ListOfSet(_)
ListOfSet(S) ==
    IF S = {} THEN { <<>> }
    ELSE UNION { { <<x>> \o s : s \in ListOfSet(S \ {x}) } : x \in S }

\* DiffParser.get_file_extensions(files): the set `extensions` it builds; it returns
\* list(extensions)
get_file_extensions(h, fs) ==
    { ExtensionOf(PathOf(h[fs[k]])) : k \in { j \in 1..Len(fs) : HasDot(PathOf(h[fs[j]])) } }

Changed(f) == DictGet(f, "additions", 0) + DictGet(f, "deletions", 0)

\* the mutant of filter_significant_changes that compares with > instead of >=
RECURSIVE filter_significant_changes_strict(_, _, _)
filter_significant_changes_strict(h, fs, min_changes) ==
    IF fs = <<>> THEN <<>>
    ELSE (IF Changed(h[Head(fs)]) > min_changes THEN <<Head(fs)>> ELSE <<>>)
         \o filter_significant_changes_strict(h, Tail(fs), min_changes)

\* DiffParser.filter_significant_changes(files, min_changes): a new list of the same
\* file objects
RECURSIVE filter_significant_changes(_, _, _)
filter_significant_changes(h, fs, min_changes) ==
    IF fs = <<>> THEN <<>>
    ELSE (IF Changed(h[Head(fs)]) >= min_changes THEN <<Head(fs)>> ELSE <<>>)
         \o filter_significant_changes(h, Tail(fs), min_changes)

Max2(a, b) == IF a >= b THEN a ELSE b

Min2(a, b) == IF a <= b THEN a ELSE b

\* s[start:end] for start >= 0; a negative end counts from the end of s
PySlice(s, start, end) ==
    SubSeq(s, start + 1, IF end < 0 THEN Max2(0, Len(s) + end) ELSE Min2(end, Len(s)))

\* the windows of the changed lines among the first n lines of a hunk, one after
\* the other (i is 0-based in the code: the n-th line has i = n - 1)
RECURSIVE RelevantLines(_, _, _)
RelevantLines(ls, n, context_lines) ==
    IF n = 0 THEN <<>>
    ELSE RelevantLines(ls, n - 1, context_lines)
         \o (IF ls[n].type \in {"addition", "deletion"}
             THEN PySlice(ls, Max2(0, (n - 1) - context_lines),
                          Min2(Len(ls), (n - 1) + context_lines + 1))
             ELSE <<>>)

\* the hunk-context records of the first n changes of a file
RECURSIVE HunkContexts(_, _, _)
HunkContexts(changes, n, context_lines) ==
    IF n = 0 THEN <<>>
    ELSE HunkContexts(changes, n - 1, context_lines)
         \o (IF /\ changes[n].type = "hunk"
                /\ RelevantLines(changes[n].lines, Len(changes[n].lines), context_lines) # <<>>
             THEN << [hunk_info |-> changes[n].info,
                      relevant_lines |->
                          RelevantLines(changes[n].lines, Len(changes[n].lines), context_lines)] >>
             ELSE <<>>)

FileContexts(f, context_lines) ==
    HunkContexts(DictGet(f, "changes", <<>>), Len(DictGet(f, "changes", <<>>)), context_lines)

\* DiffParser.extract_context_lines(files, context_lines): the dict context_data
\* after the first n files; a later file with the same path replaces the entry
RECURSIVE ContextData(_, _, _, _)
ContextData(h, fs, n, context_lines) ==
    IF n = 0 THEN <<>>
    ELSE (PathOf(h[fs[n]]) :> FileContexts(h[fs[n]], context_lines))
         @@ ContextData(h, fs, n - 1, context_lines)

extract_context_lines(h, fs, context_lines) == ContextData(h, fs, Len(fs), context_lines)

----------------------------------------------------------------------------
(* PromptFormatter.create_code_review_prompt *)

\* the call did not return: parse_diff raised in it
Raised == [raised |-> TRUE]

\* an optional argument: not passed (None), or passed with a value
Absent == [given |-> FALSE, val |-> <<>>]

Given(v) == [given |-> TRUE, val |-> v]

\* the interpolated parts of the f-string; the rest of the document is fixed text
Rendered(diff_content, pr_title, pr_description, file_extensions, h, fs) ==
    [raised |-> FALSE,
     title |-> pr_title,
     description |-> IF pr_description.given /\ pr_description.val # <<>>
                     THEN pr_description.val ELSE NoDescription,
     files_modified |-> PyStr(Len(fs)),
     total_additions |-> PyStr(get_total_changes(h, fs)[1]),
     total_deletions |-> PyStr(get_total_changes(h, fs)[2]),
     languages |-> IF file_extensions # <<>>
                   THEN PyJoin(CommaSpace, file_extensions) ELSE MixedText,
     diff |-> diff_content]

\* the mutant of create_code_review_prompt that derives the extensions only when
\* the argument is None
create_code_review_prompt_none_only(diff_content, pr_title, pr_description, file_extensions) ==
    LET parsed == parse_diff(diff_content)
    IN  IF parsed.raised THEN {Raised}
        ELSE
        { Rendered(diff_content, pr_title, pr_description, exts, parsed.heap, parsed.files) :
            exts \in IF ~file_extensions.given
                     THEN ListOfSet(get_file_extensions(parsed.heap, parsed.files))
                     ELSE {file_extensions.val} }

\* the mutant of create_code_review_prompt that counts the files of the extensions
\* it was given
create_code_review_prompt_counts_extensions(diff_content, pr_title, pr_description, file_extensions) ==
    LET parsed == parse_diff(diff_content)
    IN  IF parsed.raised THEN {Raised}
        ELSE
        { [ Rendered(diff_content, pr_title, pr_description, exts, parsed.heap, parsed.files)
            EXCEPT !.files_modified = PyStr(Len(exts)) ] :
            exts \in IF ~file_extensions.given \/ file_extensions.val = <<>>
                     THEN ListOfSet(get_file_extensions(parsed.heap, parsed.files))
                     ELSE {file_extensions.val} }

\* PromptFormatter.create_code_review_prompt(diff_content, pr_title, pr_description,
\* file_extensions): the documents it can return, one for each order list(set) can
\* give the derived extensions
create_code_review_prompt(diff_content, pr_title, pr_description, file_extensions) ==
    LET parsed == parse_diff(diff_content)
    IN  IF parsed.raised THEN {Raised}
        ELSE
        { Rendered(diff_content, pr_title, pr_description, exts, parsed.heap, parsed.files) :
            exts \in IF ~file_extensions.given \/ file_extensions.val = <<>>
                     THEN ListOfSet(get_file_extensions(parsed.heap, parsed.files))
                     ELSE {file_extensions.val} }

----------------------------------------------------------------------------
(* Calls on the files parse_diff has returned *)

\* the lines of diff text with which the calls are tried
HelperLines ==
    { LineDiffX, LineDiffRemoved, LineDiffNoExt, LineDiffBad, LineMinusHeader,
      LineHunkFull, LineAdd, LineDel, LineCtx }

GetFileExtensions ==
    /\ pc = "returned"
    /\ call = NoCall
    /\ call' = [op |-> "get_file_extensions"]
    /\ result' \in ListOfSet(get_file_extensions(heap, files))
    /\ UNCHANGED <<lines, heap, files, current_file, pc>>
    /\ UNCHANGED webhook_vars

FilterSignificantChanges ==
    /\ pc = "returned"
    /\ call = NoCall
    /\ \E min_changes \in 0..MaxMinChanges :
         /\ call' = [op |-> "filter_significant_changes", min_changes |-> min_changes]
         /\ result' = filter_significant_changes(heap, files, min_changes)
    /\ UNCHANGED <<lines, heap, files, current_file, pc>>
    /\ UNCHANGED webhook_vars

ExtractContextLines ==
    /\ pc = "returned"
    /\ call = NoCall
    /\ \E context_lines \in 0..MaxContext :
         /\ call' = [op |-> "extract_context_lines", context_lines |-> context_lines]
         /\ result' = extract_context_lines(heap, files, context_lines)
    /\ UNCHANGED <<lines, heap, files, current_file, pc>>
    /\ UNCHANGED webhook_vars

NextHelpers ==
    \/ ParseNext(HelperLines)
    \/ GetFileExtensions
    \/ FilterSignificantChanges
    \/ ExtractContextLines

SpecHelpers == Init /\ [][NextHelpers]_vars

\* the lines of diff text, the descriptions and the extension lists with which
\* create_code_review_prompt is tried
PromptLines ==
    { LineDiffX, LineDiffRemoved, LineDiffBad, LineMinusHeader, LineHunkFull, LineAdd, LineDel }

TitleT == <<"T">>

Descriptions == { Absent, Given(<<>>), Given(<<"d">>) }

ExtGo == <<"g", "o">>

ExtPy == <<"p", "y">>

ExtensionLists == { Absent, Given(<<>>), Given(<<ExtGo>>), Given(<<ExtPy, ExtGo>>) }

\* the text whose split gives `lines`
DiffContent == PyJoin(<<"\n">>, lines)

CreateCodeReviewPrompt ==
    /\ pc = "returned"
    /\ call = NoCall
    /\ \E pr_description \in Descriptions, file_extensions \in ExtensionLists :
         /\ call' = [op |-> "create_code_review_prompt", pr_title |-> TitleT,
                     pr_description |-> pr_description, file_extensions |-> file_extensions]
         /\ result' \in create_code_review_prompt(DiffContent, TitleT, pr_description,
                                                   file_extensions)
    /\ UNCHANGED <<lines, heap, files, current_file, pc>>
    /\ UNCHANGED webhook_vars

NextPrompt ==
    \/ ParseNext(PromptLines)
    \/ CreateCodeReviewPrompt

SpecPrompt == Init /\ [][NextPrompt]_vars

----------------------------------------------------------------------------
(* PromptFormatter.create_security_focused_prompt and                      *)
(* create_performance_focused_prompt                                       *)

MaxExtensions == 2    \* longest file_extensions list passed to the focused prompts

ExtJs == <<"j", "s">>

ExtJava == <<"j", "a", "v", "a">>

ExtPhp == <<"p", "h", "p">>

ExtRs == <<"r", "s">>

ExtSql == <<"s", "q", "l">>

\* an extension neither mapping has an entry for
ExtTxt == <<"t", "x", "t">>

SQLInjection == <<"S", "Q", "L", " ", "i", "n", "j", "e", "c", "t", "i", "o", "n">>

XSS == <<"X", "S", "S">>

CSRF == <<"C", "S", "R", "F">>

InputValidation == <<"I", "n", "p", "u", "t", " ", "v", "a", "l", "i", "d", "a", "t", "i", "o", "n">>

Authentication == <<"A", "u", "t", "h", "e", "n", "t", "i", "c", "a", "t", "i", "o", "n">>

PrototypePollution == <<"P", "r", "o", "t", "o", "t", "y", "p", "e", " ", "p", "o", "l", "l", "u", "t",
    "i", "o", "n">>

Deserialization == <<"D", "e", "s", "e", "r", "i", "a", "l", "i", "z", "a", "t", "i", "o", "n">>

Authorization == <<"A", "u", "t", "h", "o", "r", "i", "z", "a", "t", "i", "o", "n">>

FileInclusion == <<"F", "i", "l", "e", " ", "i", "n", "c", "l", "u", "s", "i", "o", "n">>

MemorySafety == <<"M", "e", "m", "o", "r", "y", " ", "s", "a", "f", "e", "t", "y">>

ConcurrencyIssues == <<"C", "o", "n", "c", "u", "r", "r", "e", "n", "c", "y", " ", "i", "s", "s", "u",
    "e", "s">>

AlgorithmComplexity == <<"A", "l", "g", "o", "r", "i", "t", "h", "m", " ", "c", "o", "m", "p", "l", "e",
    "x", "i", "t", "y">>

DatabaseQueries == <<"D", "a", "t", "a", "b", "a", "s", "e", " ", "q", "u", "e", "r", "i", "e", "s">>

MemoryUsage == <<"M", "e", "m", "o", "r", "y", " ", "u", "s", "a", "g", "e">>

IOOperations == <<"I", "/", "O", " ", "o", "p", "e", "r", "a", "t", "i", "o", "n", "s">>

DOMManipulation == <<"D", "O", "M", " ", "m", "a", "n", "i", "p", "u", "l", "a", "t", "i", "o", "n">>

EventHandling == <<"E", "v", "e", "n", "t", " ", "h", "a", "n", "d", "l", "i", "n", "g">>

MemoryLeaks == <<"M", "e", "m", "o", "r", "y", " ", "l", "e", "a", "k", "s">>

BundleSize == <<"B", "u", "n", "d", "l", "e", " ", "s", "i", "z", "e">>

MemoryAllocation == <<"M", "e", "m", "o", "r", "y", " ", "a", "l", "l", "o", "c", "a", "t", "i", "o",
    "n">>

GarbageCollection == <<"G", "a", "r", "b", "a", "g", "e", " ", "c", "o", "l", "l", "e", "c", "t", "i",
    "o", "n">>

ThreadSafety == <<"T", "h", "r", "e", "a", "d", " ", "s", "a", "f", "e", "t", "y">>

DatabaseConnections == <<"D", "a", "t", "a", "b", "a", "s", "e", " ", "c", "o", "n", "n", "e", "c", "t",
    "i", "o", "n", "s">>

QueryOptimization == <<"Q", "u", "e", "r", "y", " ", "o", "p", "t", "i", "m", "i", "z", "a", "t", "i",
    "o", "n">>

IndexUsage == <<"I", "n", "d", "e", "x", " ", "u", "s", "a", "g", "e">>

JoinPerformance == <<"J", "o", "i", "n", " ", "p", "e", "r", "f", "o", "r", "m", "a", "n", "c", "e">>

DataVolume == <<"D", "a", "t", "a", " ", "v", "o", "l", "u", "m", "e">>

GoroutineManagement == <<"G", "o", "r", "o", "u", "t", "i", "n", "e", " ", "m", "a", "n", "a", "g", "e",
    "m", "e", "n", "t">>

Concurrency == <<"C", "o", "n", "c", "u", "r", "r", "e", "n", "c", "y">>

ZeroCopyOperations == <<"Z", "e", "r", "o", "-", "c", "o", "p", "y", " ", "o", "p", "e", "r", "a", "t",
    "i", "o", "n", "s">>

AsyncHandling == <<"A", "s", "y", "n", "c", " ", "h", "a", "n", "d", "l", "i", "n", "g">>

security_checks ==
    (ExtPy :> <<SQLInjection, XSS, CSRF, InputValidation, Authentication>>)
    @@ (ExtJs :> <<XSS, CSRF, InputValidation, Authentication, PrototypePollution>>)
    @@ (ExtJava :> <<SQLInjection, XSS, Deserialization, Authentication, Authorization>>)
    @@ (ExtPhp :> <<SQLInjection, XSS, FileInclusion, Authentication, InputValidation>>)
    @@ (ExtGo :> <<SQLInjection, XSS, Authentication, MemorySafety, ConcurrencyIssues>>)
    @@ (ExtRs :> <<MemorySafety, Authentication, InputValidation, ConcurrencyIssues>>)

performance_concerns ==
    (ExtPy :> <<AlgorithmComplexity, DatabaseQueries, MemoryUsage, IOOperations>>)
    @@ (ExtJs :> <<DOMManipulation, EventHandling, MemoryLeaks, BundleSize>>)
    @@ (ExtJava :> <<MemoryAllocation, GarbageCollection, ThreadSafety, DatabaseConnections>>)
    @@ (ExtSql :> <<QueryOptimization, IndexUsage, JoinPerformance, DataVolume>>)
    @@ (ExtGo :> <<GoroutineManagement, MemoryAllocation, Concurrency, IOOperations>>)
    @@ (ExtRs :> <<MemoryAllocation, Concurrency, ZeroCopyOperations, AsyncHandling>>)
\* the elements of a list
ToSet(s) == { s[i] : i \in 1..Len(s) }

\* for ext in file_extensions: if ext in checks: relevant.extend(checks[ext])
RECURSIVE RelevantTopics(_, _)
RelevantTopics(checks, file_extensions) ==
    IF file_extensions = <<>> THEN <<>>
    ELSE (IF Head(file_extensions) \in DOMAIN checks THEN checks[Head(file_extensions)] ELSE <<>>)
         \o RelevantTopics(checks, Tail(file_extensions))

\* chr(10).join(f"- {check}" for check in relevant_checks)
TopicLines(relevant_checks) ==
    PyJoin(<<"\n">>, [i \in 1..Len(relevant_checks) |-> <<"-", " ">> \o relevant_checks[i]])

\* the interpolated parts of the f-string of a focused prompt; the rest is fixed text
RenderedFocused(diff_content, file_extensions, relevant_checks) ==
    [raised |-> FALSE,
     diff |-> diff_content,
     file_types |-> PyJoin(CommaSpace, file_extensions),
     checks |-> TopicLines(relevant_checks)]

\* a focused prompt over the mapping `checks`: iterating file_extensions raises
\* TypeError when it is None; the topics are listed in the order list(set(..)) gives
FocusedPrompt(checks, diff_content, file_extensions) ==
    IF ~file_extensions.given THEN {Raised}
    ELSE { RenderedFocused(diff_content, file_extensions.val, relevant_checks) :
             relevant_checks \in ListOfSet(ToSet(RelevantTopics(checks, file_extensions.val))) }

\* the mutant of create_security_focused_prompt that does not remove duplicates
create_security_focused_prompt_keeps_duplicates(diff_content, file_extensions) ==
    IF ~file_extensions.given THEN {Raised}
    ELSE { RenderedFocused(diff_content, file_extensions.val,
                           RelevantTopics(security_checks, file_extensions.val)) }

\* PromptFormatter.create_security_focused_prompt(diff_content, file_extensions): the
\* documents it can return
create_security_focused_prompt(diff_content, file_extensions) ==
    FocusedPrompt(security_checks, diff_content, file_extensions)

\* PromptFormatter.create_performance_focused_prompt(diff_content, file_extensions)
create_performance_focused_prompt(diff_content, file_extensions) ==
    FocusedPrompt(performance_concerns, diff_content, file_extensions)

\* the lists of at most n of the extensions E
RECURSIVE ListsUpTo(_, _)
ListsUpTo(E, n) ==
    IF n = 0 THEN { <<>> }
    ELSE ListsUpTo(E, n - 1)
         \cup { Append(l, e) : l \in { m \in ListsUpTo(E, n - 1) : Len(m) = n - 1 }, e \in E }

\* the diff texts passed to the focused prompts, which only quote them
FocusedDiffs == { <<>>, LineAdd }

\* a call of create_security_focused_prompt with a list of the extensions E, or None
CreateSecurityFocusedPrompt(E) ==
    /\ call = NoCall
    /\ \E diff_content \in FocusedDiffs,
          file_extensions \in { Absent } \cup { Given(l) : l \in ListsUpTo(E, MaxExtensions) } :
         /\ call' = [op |-> "create_security_focused_prompt", diff_content |-> diff_content,
                     file_extensions |-> file_extensions]
         /\ result' \in create_security_focused_prompt(diff_content, file_extensions)
    /\ UNCHANGED <<lines, heap, files, current_file, pc>>
    /\ UNCHANGED webhook_vars

\* a call of create_performance_focused_prompt with a list of the extensions E, or None
CreatePerformanceFocusedPrompt(E) ==
    /\ call = NoCall
    /\ \E diff_content \in FocusedDiffs,
          file_extensions \in { Absent } \cup { Given(l) : l \in ListsUpTo(E, MaxExtensions) } :
         /\ call' = [op |-> "create_performance_focused_prompt", diff_content |-> diff_content,
                     file_extensions |-> file_extensions]
         /\ result' \in create_performance_focused_prompt(diff_content, file_extensions)
    /\ UNCHANGED <<lines, heap, files, current_file, pc>>
    /\ UNCHANGED webhook_vars

\* the extensions with which the topic lists are tried: the two of the example
\* and one without an entry
SecurityExtensions == { ExtPy, ExtGo, ExtTxt }

NextSecurity == CreateSecurityFocusedPrompt(SecurityExtensions)

SpecSecurity == Init /\ [][NextSecurity]_vars

\* the renderers, each called on arguments drawn here, and called again on the
\* same arguments (in the same interpreter process or in a later one)
LineDiffGo == <<"d", "i", "f", "f", " ", "-", "-", "g", "i", "t", " ", "a", "/", "m", ".", "g", "o",
                " ", "b", "/", "m", ".", "g", "o">>

\* the diff texts create_code_review_prompt is tried with: the empty text, two
\* files of different extensions, and a hunk header with a number int() refuses
RendererDiffs ==
    { <<>>,
      PyJoin(<<"\n">>, <<LineDiffX, LineDiffGo>>),
      PyJoin(<<"\n">>, <<LineDiffX, LineHunkHuge>>) }

\* a call of create_code_review_prompt on one of the texts D
CreateCodeReviewPromptOf(D) ==
    /\ call = NoCall
    /\ \E diff_content \in D, pr_description \in Descriptions, file_extensions \in ExtensionLists :
         /\ call' = [op |-> "create_code_review_prompt", diff_content |-> diff_content,
                     pr_title |-> TitleT, pr_description |-> pr_description,
                     file_extensions |-> file_extensions]
         /\ result' \in create_code_review_prompt(diff_content, TitleT, pr_description,
                                                   file_extensions)
    /\ UNCHANGED <<lines, heap, files, current_file, pc>>
    /\ UNCHANGED webhook_vars

\* what the renderer of the call c can return on the arguments of c
Outcomes(c) ==
    IF c.op = "create_security_focused_prompt"
    THEN create_security_focused_prompt(c.diff_content, c.file_extensions)
    ELSE IF c.op = "create_performance_focused_prompt"
    THEN create_performance_focused_prompt(c.diff_content, c.file_extensions)
    ELSE create_code_review_prompt(c.diff_content, c.pr_title, c.pr_description,
                                   c.file_extensions)

\* the renderer is called once more on the arguments of the call before
CallAgain ==
    /\ call # NoCall
    /\ call' = call
    /\ result' \in Outcomes(call)
    /\ UNCHANGED <<lines, heap, files, current_file, pc>>
    /\ UNCHANGED webhook_vars

\* an extension with four topics in either mapping, and one without an entry
RendererExtensions == { ExtRs, ExtTxt }

NextRenderers ==
    \/ CreateCodeReviewPromptOf(RendererDiffs)
    \/ CreateSecurityFocusedPrompt(RendererExtensions)
    \/ CreatePerformanceFocusedPrompt(RendererExtensions)
    \/ CallAgain

SpecRenderers == Init /\ [][NextRenderers]_vars

----------------------------------------------------------------------------
(* app/core/security.py and the POST /webhook route of app/routes/webhook.py *)

MaxQueued == 2        \* most review tasks waiting to be started

\* settings.github_webhook_secret, and a secret that is not the configured one
WebhookSecret == "github_webhook_secret"

OtherSecret == "other_secret"

\* hmac.new(key, payload, hashlib.sha256).hexdigest(): the digest stands for the key
\* and the payload it was computed from (two of them differ if these differ)
HmacSha256(key, payload) == [key |-> key, payload |-> payload]

\* a field of a JSON object
MissingField == [type |-> "missing", val |-> "", body |-> ""]

StrField(s) == [type |-> "str", val |-> s, body |-> ""]

IntField == [type |-> "int", val |-> "", body |-> ""]

\* a value of the wrong shape for the schema
InvalidField == [type |-> "invalid", val |-> "", body |-> ""]

\* a value the schema accepts; for pull_request, body is "none" (null) or "text"
ValidField(body) == [type |-> "valid", val |-> "", body |-> body]

\* the bytes of a request body, by what json.loads makes of them: json is
\* "undecodable" (not UTF-8), "malformed", "null", "number", "string", "array" or
\* "object"; has tells whether a string contains, or an array has the item,
\* 'pull_request'; the fields are those of an object
PullRequestEvent(action, body) ==
    [json |-> "object", has |-> FALSE, action |-> action, number |-> ValidField(""),
     pull_request |-> ValidField(body), repository |-> ValidField(""),
     sender |-> ValidField("")]

NotAnObject(json, has) ==
    [json |-> json, has |-> has, action |-> MissingField, number |-> MissingField,
     pull_request |-> MissingField, repository |-> MissingField, sender |-> MissingField]

\* the X-Hub-Signature-256 header: absent, or a string of a prefix and a digest;
\* ascii is FALSE when the string has a character outside ASCII
NoHeader == [present |-> FALSE, ascii |-> TRUE, prefix |-> "", digest |-> HmacSha256("", "")]

Header(prefix, digest) == [present |-> TRUE, ascii |-> TRUE, prefix |-> prefix, digest |-> digest]

EmptyHeader == [present |-> TRUE, ascii |-> TRUE, prefix |-> "", digest |-> HmacSha256("", "")]

NonAsciiHeader == [present |-> TRUE, ascii |-> FALSE, prefix |-> "sha256=", digest |-> HmacSha256("", "")]

\* security.verify_github_signature(request, payload): False without a header (or
\* with an empty one), else whether the header is 'sha256=' + the digest of the
\* payload under the secret; hmac.compare_digest raises TypeError on a str that is
\* not ASCII
verify_github_signature(req) ==
    IF ~req.signature.present \/ req.signature = EmptyHeader
    THEN [raised |-> FALSE, val |-> FALSE]
    ELSE IF ~req.signature.ascii THEN [raised |-> TRUE, val |-> FALSE]
    ELSE [raised |-> FALSE,
          val |-> req.signature = Header("sha256=", HmacSha256(WebhookSecret, req.payload))]

\* "pull_request" in webhook_data: a key of a dict, an item of a list, a substring
\* of a str
HasPullRequest(webhook_data) ==
    IF webhook_data.json = "object" THEN webhook_data.pull_request.type # "missing"
    ELSE webhook_data.has

\* GitHubWebhookPayload(**webhook_data) does not raise: a mapping with a str
\* action and the four other required fields of the right shape
ParsesAsPayload(webhook_data) ==
    /\ webhook_data.json = "object"
    /\ webhook_data.action.type = "str"
    /\ webhook_data.number.type = "valid"
    /\ webhook_data.pull_request.type = "valid"
    /\ webhook_data.repository.type = "valid"
    /\ webhook_data.sender.type = "valid"

\* the GitHubWebhookPayload of a request body
GitHubWebhookPayload(webhook_data) ==
    [action |-> webhook_data.action.val, body |-> webhook_data.pull_request.body]

\* how a call of the route ends: a JSONResponse, an HTTPException (the response
\* the framework makes of it), or another exception (status 500); add_task is the
\* list of payloads given to background_tasks.add_task
Ended(status, detail, add_task) == [status |-> status, detail |-> detail, add_task |-> add_task]

\* the mutant of handle_github_webhook without the test of the action
handle_github_webhook_any_action(req) ==
    IF verify_github_signature(req).raised THEN Ended(500, "TypeError", <<>>)
    ELSE IF ~verify_github_signature(req).val THEN Ended(401, "Invalid signature", <<>>)
    ELSE IF req.payload.json = "undecodable" THEN Ended(500, "UnicodeDecodeError", <<>>)
    ELSE IF req.payload.json = "malformed" THEN Ended(400, "Invalid JSON payload", <<>>)
    ELSE IF req.payload.json \in {"null", "number"} THEN Ended(500, "TypeError", <<>>)
    ELSE IF ~HasPullRequest(req.payload) THEN Ended(200, "Not a pull request event", <<>>)
    ELSE IF ~ParsesAsPayload(req.payload) THEN Ended(400, "Invalid GitHub payload", <<>>)
    ELSE Ended(200, "Pull request review queued", <<GitHubWebhookPayload(req.payload)>>)

\* handle_github_webhook(request, background_tasks)
handle_github_webhook(req) ==
    IF verify_github_signature(req).raised THEN Ended(500, "TypeError", <<>>)
    ELSE IF ~verify_github_signature(req).val THEN Ended(401, "Invalid signature", <<>>)
    ELSE IF req.payload.json = "undecodable" THEN Ended(500, "UnicodeDecodeError", <<>>)
    ELSE IF req.payload.json = "malformed" THEN Ended(400, "Invalid JSON payload", <<>>)
    ELSE IF req.payload.json \in {"null", "number"} THEN Ended(500, "TypeError", <<>>)
    ELSE IF ~HasPullRequest(req.payload) THEN Ended(200, "Not a pull request event", <<>>)
    ELSE IF ~ParsesAsPayload(req.payload) THEN Ended(400, "Invalid GitHub payload", <<>>)
    ELSE IF GitHubWebhookPayload(req.payload).action \notin {"opened", "synchronize"}
    THEN Ended(200, "Ignoring action", <<>>)
    ELSE Ended(200, "Pull request review queued", <<GitHubWebhookPayload(req.payload)>>)

\* the request bodies the route is tried with
WebhookPayloads ==
    { PullRequestEvent(StrField(a), b) :
        a \in {"opened", "synchronize", "closed", "Opened"}, b \in {"none", "text"} }
    \cup { PullRequestEvent(MissingField, "text"), PullRequestEvent(IntField, "text"),
           [PullRequestEvent(StrField("opened"), "text") EXCEPT !.number = MissingField],
           [PullRequestEvent(StrField("opened"), "text") EXCEPT !.pull_request = MissingField],
           [PullRequestEvent(StrField("opened"), "text") EXCEPT !.pull_request = InvalidField],
           [PullRequestEvent(StrField("opened"), "text") EXCEPT !.repository = InvalidField],
           [PullRequestEvent(StrField("opened"), "text") EXCEPT !.sender = MissingField] }
    \cup { NotAnObject(j, FALSE) : j \in {"undecodable", "malformed", "null", "number"} }
    \cup { NotAnObject(j, h) : j \in {"string", "array"}, h \in BOOLEAN }

\* the signature headers a body is sent with: none, empty, the right one, one made
\* with another secret, the right one of another body, the digest without its
\* prefix, and one that is not ASCII
SignaturesFor(payload) ==
    { NoHeader, EmptyHeader, NonAsciiHeader,
      Header("sha256=", HmacSha256(WebhookSecret, payload)),
      Header("sha256=", HmacSha256(OtherSecret, payload)),
      Header("sha256=", HmacSha256(WebhookSecret, NotAnObject("malformed", TRUE))),
      Header("", HmacSha256(WebhookSecret, payload)) }

\* a POST /webhook request with one of the bodies P is handled to its end
HandleGithubWebhook(P) ==
    /\ \E payload \in P :
         \E signature \in SignaturesFor(payload) :
            /\ request' = [method |-> "POST", signature |-> signature, payload |-> payload]
            /\ response' = [status |-> handle_github_webhook(request').status,
                            detail |-> handle_github_webhook(request').detail]
            /\ background_tasks' = background_tasks \o handle_github_webhook(request').add_task
            /\ Len(background_tasks') <= MaxQueued
    /\ UNCHANGED <<task, steps>>
    /\ UNCHANGED parser_vars

NextWebhook == HandleGithubWebhook(WebhookPayloads)

SpecWebhook == Init /\ [][NextWebhook]_vars

----------------------------------------------------------------------------
(* process_pull_request_review of app/routes/webhook.py, with the calls it makes *)
(* to GitHubService and OpenAIService                                          *)

\* a call returned v
Returned(v) == [raised |-> FALSE, val |-> v]

\* the diff texts GitHub answers with: one file with a hunk, two files of
\* different extensions, and a hunk header with a number int() refuses
ReviewDiffs ==
    { PyJoin(<<"\n">>, <<LineDiffX, LineHunkFull, LineAdd>>),
      PyJoin(<<"\n">>, <<LineDiffX, LineDiffGo>>),
      PyJoin(<<"\n">>, <<LineDiffX, LineHunkHuge>>) }

\* GitHubService.get_pull_request_diff: response.text (which may be empty), None
\* after an httpx.HTTPError, or an exception that is not an httpx.HTTPError
GetPullRequestDiffOutcomes ==
    { Returned(Given(text)) : text \in ReviewDiffs \cup { <<>> } } \cup { Returned(Absent), Raised }

\* GitHubService.post_review_comment: True, False after an httpx.HTTPError, or an
\* exception that is not an httpx.HTTPError
PostReviewCommentOutcomes == { Returned(TRUE), Returned(FALSE), Raised }

\* OpenAIService.analyze_code_diff: a review object, nothing, or an exception
ReviewObject == <<"r">>

AnalyzeCodeDiffOutcomes == { Returned(Given(ReviewObject)), Returned(Absent), Raised }

\* OpenAIService.format_review_comment: the comment text, or an exception
FormatReviewCommentOutcomes == { Returned(<<"c">>), Raised }

\* the task of a payload, before its first call
NewTask(github_payload) ==
    [pc |-> "fetch", github_payload |-> github_payload, diff_content |-> Absent,
     review_prompt |-> Absent, ai_review |-> Absent, log |-> "Processing PR review"]

\* pr_description = github_payload.pull_request.body or ""
DescriptionOfPayload(github_payload) ==
    IF github_payload.body = "none" THEN <<>> ELSE <<"d">>

\* except Exception as e: logger.error(...): the task ends
Caught(t) == [t EXCEPT !.pc = "done", !.log = "Error processing PR review"]

\* a return of the task after the log line `log`
Return(t, log) == [t EXCEPT !.pc = "done", !.log = log]

\* diff_content = await github_service.get_pull_request_diff(...); if not diff_content: return
AfterFetch(t, outcome) ==
    IF outcome.raised THEN Caught(t)
    ELSE IF ~outcome.val.given \/ outcome.val.val = <<>>
    THEN Return([t EXCEPT !.diff_content = outcome.val], "Failed to fetch diff")
    ELSE [t EXCEPT !.diff_content = outcome.val, !.pc = "prompt"]

\* parsed_files = DiffParser.parse_diff(diff_content); file_extensions =
\* DiffParser.get_file_extensions(parsed_files); review_prompt =
\* PromptFormatter.create_code_review_prompt(...): the prompts that can come out
ReviewPrompts(t) ==
    IF parse_diff(t.diff_content.val).raised THEN { Raised }
    ELSE UNION { create_code_review_prompt(t.diff_content.val, TitleT,
                                           Given(DescriptionOfPayload(t.github_payload)),
                                           Given(file_extensions)) :
                   file_extensions \in
                       ListOfSet(get_file_extensions(parse_diff(t.diff_content.val).heap,
                                                     parse_diff(t.diff_content.val).files)) }

AfterPrompt(t, outcome) ==
    IF outcome.raised THEN Caught(t)
    ELSE [t EXCEPT !.review_prompt = Given(outcome), !.pc = "review"]

\* the mutant of the test of ai_review that goes on without a review
AfterAnalysisNoTest(t, outcome) ==
    IF outcome.raised THEN Caught(t)
    ELSE [t EXCEPT !.ai_review = outcome.val, !.pc = "post"]

\* ai_review = await openai_service.analyze_code_diff(...); if not ai_review: return
AfterAnalysis(t, outcome) ==
    IF outcome.raised THEN Caught(t)
    ELSE IF ~outcome.val.given
    THEN Return([t EXCEPT !.ai_review = outcome.val], "Failed to get AI review")
    ELSE [t EXCEPT !.ai_review = outcome.val, !.pc = "post"]

\* success = await github_service.post_review_comment(...), and the log line
AfterPost(t, outcome) ==
    IF outcome.raised THEN Caught(t)
    ELSE IF outcome.val THEN Return(t, "Successfully posted review")
    ELSE Return(t, "Failed to post review")

\* the framework starts the next task that was added
StartReview ==
    /\ background_tasks # <<>>
    /\ task.pc \in {"none", "done"}
    /\ task' = NewTask(Head(background_tasks))
    /\ background_tasks' = Tail(background_tasks)
    /\ steps' = <<>>
    /\ UNCHANGED <<request, response>>
    /\ UNCHANGED parser_vars

\* lines 78-85: the diff is fetched
GetPullRequestDiff ==
    /\ task.pc = "fetch"
    /\ \E outcome \in GetPullRequestDiffOutcomes : task' = AfterFetch(task, outcome)
    /\ steps' = Append(steps, "get_pull_request_diff")
    /\ UNCHANGED <<request, response, background_tasks>>
    /\ UNCHANGED parser_vars

\* lines 87-97: the diff is parsed and the prompt is built
BuildReviewPrompt ==
    /\ task.pc = "prompt"
    /\ \E outcome \in ReviewPrompts(task) : task' = AfterPrompt(task, outcome)
    /\ steps' = Append(steps, "create_code_review_prompt")
    /\ UNCHANGED <<request, response, background_tasks>>
    /\ UNCHANGED parser_vars

\* lines 99-106: the AI review is requested
AnalyzeCodeDiff ==
    /\ task.pc = "review"
    /\ \E outcome \in AnalyzeCodeDiffOutcomes : task' = AfterAnalysis(task, outcome)
    /\ steps' = Append(steps, "analyze_code_diff")
    /\ UNCHANGED <<request, response, background_tasks>>
    /\ UNCHANGED parser_vars

\* lines 108-119: the comment is formatted, then posted unless formatting raised
PostReviewComment ==
    /\ task.pc = "post"
    /\ \E review_comment \in FormatReviewCommentOutcomes :
         IF review_comment.raised
         THEN /\ task' = Caught(task)
              /\ steps' = steps
         ELSE /\ \E outcome \in PostReviewCommentOutcomes : task' = AfterPost(task, outcome)
              /\ steps' = Append(steps, "post_review_comment")
    /\ UNCHANGED <<request, response, background_tasks>>
    /\ UNCHANGED parser_vars

\* the request bodies with which reviews are queued
ReviewPayloads ==
    { PullRequestEvent(StrField("opened"), "text"),
      PullRequestEvent(StrField("synchronize"), "none"),
      PullRequestEvent(StrField("closed"), "text") }

NextReview ==
    \/ HandleGithubWebhook(ReviewPayloads)
    \/ StartReview
    \/ GetPullRequestDiff
    \/ BuildReviewPrompt
    \/ AnalyzeCodeDiff
    \/ PostReviewComment

SpecReview == Init /\ [][NextReview]_vars

----------------------------------------------------------------------------
(* What the text of a diff says, read without the parser *)

\* [file, hunk, adds, dels] after the lines ls: a 'diff --git a/.. b/..' line opens a
\* file section and any 'diff --git' line ends the hunk before it; an '@@' line in a
\* file section opens a hunk; a line in a hunk is a body line, an addition if its
\* first character is '+' and a deletion if it is '-'
RECURSIVE TextScan(_)
TextScan(ls) ==
    IF ls = <<>> THEN [file |-> FALSE, hunk |-> FALSE, adds |-> 0, dels |-> 0]
    ELSE LET before == TextScan(SubSeq(ls, 1, Len(ls) - 1))
             line == ls[Len(ls)]
         IN  IF StartsWith(line, DiffGitPrefix)
             THEN [before EXCEPT !.file = @ \/ DiffGitSearch(line).matched, !.hunk = FALSE]
             ELSE IF StartsWith(line, AtAt) THEN [before EXCEPT !.hunk = before.file]
             ELSE IF before.hunk /\ StartsWith(line, <<"+">>) THEN [before EXCEPT !.adds = @ + 1]
             ELSE IF before.hunk /\ StartsWith(line, <<"-">>) THEN [before EXCEPT !.dels = @ + 1]
             ELSE before

\* the lines of type t in the hunks of the file dict f
LinesOfType(f, t) ==
    { p \in UNION { { <<c, l>> : l \in 1..Len(f.changes[c].lines) } : c \in 1..Len(f.changes) } :
        f.changes[p[1]].lines[p[2]].type = t }

\* the tokens of a hunk header '@@ -a[,b] +c[,d] @@', split at its blanks
HeaderTokens(line) == PySplit(line, " ")

\* a range token: the sign, then a, then perhaps a comma and b; all digits
RangeOk(tok, sign) ==
    /\ StartsWith(tok, <<sign>>)
    /\ Len(PySplit(Tail1(tok), ",")) \in {1, 2}
    /\ PySplit(Tail1(tok), ",")[1] # <<>>
    /\ \A part \in 1..Len(PySplit(Tail1(tok), ",")) :
         \A k \in 1..Len(PySplit(Tail1(tok), ",")[part]) : IsDigit(PySplit(Tail1(tok), ",")[part][k])

HeaderWellFormed(line) ==
    /\ Len(HeaderTokens(line)) >= 4
    /\ HeaderTokens(line)[1] = AtAt
    /\ RangeOk(HeaderTokens(line)[2], "-")
    /\ RangeOk(HeaderTokens(line)[3], "+")
    /\ HeaderTokens(line)[4] = AtAt

RangeStart(tok) == DigitsValue(PySplit(Tail1(tok), ",")[1])

\* the count of a range token: b when written (0 included), 1 when omitted
RangeCount(tok) ==
    IF Len(PySplit(Tail1(tok), ",")) = 2 /\ PySplit(Tail1(tok), ",")[2] # <<>>
    THEN DigitsValue(PySplit(Tail1(tok), ",")[2])
    ELSE 1

\* the info a hunk header stands for
HeaderInfo(line) ==
    IF HeaderWellFormed(line)
    THEN [old_start |-> RangeStart(HeaderTokens(line)[2]),
          old_count |-> RangeCount(HeaderTokens(line)[2]),
          new_start |-> RangeStart(HeaderTokens(line)[3]),
          new_count |-> RangeCount(HeaderTokens(line)[3])]
    ELSE EmptyDict

\* the hunks of all files, as (file, index) pairs
Hunks == UNION { { <<r, c>> : c \in 1..Len(heap[r].changes) } : r \in 1..Len(heap) }

----------------------------------------------------------------------------
(* Claims about parse_diff *)

\* C1 (as claimed): when parse_diff has returned, the additions and deletions of the
\* returned files, summed by get_total_changes, are the numbers of addition and
\* deletion body lines of the text.
C1_TotalsEqualTextCounts ==
    pc = "returned" =>
        get_total_changes(heap, files) = <<TextScan(lines).adds, TextScan(lines).dels>>

\* C2: after every prefix of the lines and in the result, each file's additions is
\* the number of 'addition' lines in its hunks, its deletions the number of
\* 'deletion' lines, and neither is negative.
C2_CountersMatchHunkLines ==
    \A r \in 1..Len(heap) :
        /\ heap[r].additions = Cardinality(LinesOfType(heap[r], "addition"))
        /\ heap[r].deletions = Cardinality(LinesOfType(heap[r], "deletion"))
        /\ heap[r].additions >= 0
        /\ heap[r].deletions >= 0

C2_Witness ==
    /\ pc = "returned"
    /\ \E k \in 1..Len(files) : heap[files[k]].additions >= 1 /\ heap[files[k]].deletions >= 1

\* C3 (as claimed): a file that is in the result sequence stays at its place and no
\* later line changes its hunks, lines or counters.
C3_AppendedFileIsImmutable ==
    [][\A k \in 1..Len(files) :
          /\ k <= Len(files')
          /\ heap'[files'[k]] = heap[files[k]]]_vars

\* C4 (as claimed): parse_diff never raises, whatever the lines are, it returns a
\* sequence of files, and for the empty text that sequence is empty.
C4_NeverRaises ==
    /\ pc # "raised"
    /\ pc = "returned" => \A k \in 1..Len(files) : files[k] \in 1..Len(heap)
    /\ (pc = "returned" /\ lines = <<LineEmpty>>) => files = <<>>

\* C5 (as claimed): an '@@' line read while there is a current file appends exactly one hunk to
\* that file and changes nothing else; the hunk has no lines and its info is the one
\* the header stands for (a count of 0 kept, an omitted count 1), or is empty when
\* the header is malformed; parsing goes on.
C5_HunkHeaderAppendsOneHunk ==
    [][(/\ pc = "loop"
        /\ Len(lines') = Len(lines) + 1
        /\ StartsWith(lines'[Len(lines')], AtAt)
        /\ current_file # None)
       => (/\ pc' = "loop"
           /\ current_file' = current_file
           /\ files' = files
           /\ heap' = [heap EXCEPT ![current_file].changes =
                          Append(@, [type |-> "hunk",
                                     info |-> HeaderInfo(lines'[Len(lines')]),
                                     lines |-> <<>>])])]_vars

----------------------------------------------------------------------------
(* Claims about the calls on the parsed files *)

\* the path of a file as the specification chooses it: new_path unless it is empty
ChosenPath(f) == IF f.new_path # <<>> THEN f.new_path ELSE f.old_path

\* the part of a path after its last '.'
AfterLastDot(path) ==
    SubSeq(path, SetMax({ k \in 1..Len(path) : path[k] = "." }) + 1, Len(path))

\* C6 (as claimed): get_file_extensions returns, without duplicates, exactly the
\* lower-cased parts after the last '.' of the chosen paths that contain a '.'.
C6_ExtensionsOfChosenPaths ==
    call.op = "get_file_extensions" =>
        /\ \A i, j \in 1..Len(result) : result[i] = result[j] => i = j
        /\ { result[i] : i \in 1..Len(result) } =
               { PyLower(AfterLastDot(ChosenPath(heap[files[k]]))) :
                   k \in { j \in 1..Len(files) : HasDot(ChosenPath(heap[files[j]])) } }

\* the places in fs of the files with at least min_changes changed lines
Kept(h, fs, min_changes) ==
    { k \in 1..Len(fs) : h[fs[k]].additions + h[fs[k]].deletions >= min_changes }

Window(ls, i, context_lines) ==
    SubSeq(ls, Max2(1, i - context_lines), Min2(Len(ls), i + context_lines))

\* the windows of the changed lines at places n..Len(ls), in ascending order
RECURSIVE WindowsFrom(_, _, _)
WindowsFrom(ls, n, context_lines) ==
    IF n > Len(ls) THEN <<>>
    ELSE (IF ls[n].type # "context" THEN Window(ls, n, context_lines) ELSE <<>>)
         \o WindowsFrom(ls, n + 1, context_lines)

\* the hunk-context records of the hunks n..Len(changes) that have a changed line
RECURSIVE ContextsFrom(_, _, _)
ContextsFrom(changes, n, context_lines) ==
    IF n > Len(changes) THEN <<>>
    ELSE (IF \E l \in 1..Len(changes[n].lines) : changes[n].lines[l].type # "context"
          THEN << [hunk_info |-> changes[n].info,
                   relevant_lines |-> WindowsFrom(changes[n].lines, 1, context_lines)] >>
          ELSE <<>>)
         \o ContextsFrom(changes, n + 1, context_lines)

\* C8 (as claimed): extract_context_lines maps the chosen path of each file to the
\* hunk-context records of that file (of the last file of that path), a hunk being
\* there only if it has a changed line, with the windows of its changed lines one
\* after the other.
C8_ContextsOfChosenPaths ==
    call.op = "extract_context_lines" =>
        /\ DOMAIN result = { ChosenPath(heap[files[k]]) : k \in 1..Len(files) }
        /\ \A k \in 1..Len(files) :
             (\A j \in (k + 1)..Len(files) :
                  ChosenPath(heap[files[j]]) # ChosenPath(heap[files[k]]))
             => result[ChosenPath(heap[files[k]])] =
                    ContextsFrom(heap[files[k]].changes, 1, call.context_lines)

----------------------------------------------------------------------------
(* Claims about create_code_review_prompt *)

\* C9: whatever file_extensions is (not passed, empty or not), the statistics of
\* the document are those of the text: Files Modified is the number of files
\* parse_diff returns for it, Total Additions and Total Deletions are their
\* get_total_changes.
C9_StatisticsAreThoseOfTheParse ==
    (call.op = "create_code_review_prompt" /\ ~result.raised) =>
        /\ ~PyInt(result.files_modified).raised
        /\ ~PyInt(result.total_additions).raised
        /\ ~PyInt(result.total_deletions).raised
        /\ PyInt(result.files_modified).val = Len(files)
        /\ PyInt(result.total_additions).val = get_total_changes(heap, files)[1]
        /\ PyInt(result.total_deletions).val = get_total_changes(heap, files)[2]
        /\ result.diff = DiffContent

C9_Witness ==
    /\ call.op = "create_code_review_prompt"
    /\ call.file_extensions = Given(<<ExtPy, ExtGo>>)
    /\ result.files_modified = <<"1">>
    /\ result.total_additions = <<"1">>
    /\ result.total_deletions = <<"1">>

\* how a list of extensions is rendered
Languages(exts) == IF exts = <<>> THEN MixedText ELSE PyJoin(CommaSpace, exts)

\* how the description is rendered
DescriptionOf(pr_description) ==
    IF ~pr_description.given \/ pr_description.val = <<>>
    THEN NoDescription
    ELSE pr_description.val

\* C10 (as claimed): the extensions are derived from the diff only when
\* file_extensions is not passed; a list that is passed is rendered as it is, "Mixed"
\* if it is empty; a description that is missing or empty is rendered as "No
\* description provided".
C10_DerivedOnlyWhenNotPassed ==
    (call.op = "create_code_review_prompt" /\ ~result.raised) =>
        /\ call.file_extensions.given =>
               result.languages = Languages(call.file_extensions.val)
        /\ ~call.file_extensions.given =>
               \E exts \in ListOfSet(get_file_extensions(heap, files)) :
                   result.languages = Languages(exts)
        /\ result.description = DescriptionOf(call.pr_description)

\* C10 (amended): the extensions are derived from the diff when file_extensions is
\* not passed or is empty; a non-empty list that is passed is rendered as it is;
\* "Mixed" is rendered when the list used, passed or derived, is empty; a
\* description that is missing or empty is rendered as "No description provided".
C10_DerivedWhenAbsentOrEmpty ==
    (call.op = "create_code_review_prompt" /\ ~result.raised) =>
        /\ (call.file_extensions.given /\ call.file_extensions.val # <<>>) =>
               result.languages = PyJoin(CommaSpace, call.file_extensions.val)
        /\ (~call.file_extensions.given \/ call.file_extensions.val = <<>>) =>
               \E exts \in ListOfSet(get_file_extensions(heap, files)) :
                   result.languages = Languages(exts)
        /\ result.description = DescriptionOf(call.pr_description)

C10_Witness ==
    /\ call.op = "create_code_review_prompt"
    /\ call.file_extensions = Given(<<>>)
    /\ call.pr_description = Given(<<>>)
    /\ result.languages = ExtPy
    /\ result.description = NoDescription

----------------------------------------------------------------------------
(* Claims about the focused prompts *)

\* the lines of a rendered list without their '- ', when each line has one
ListedTopics(text) ==
    LET listed == PySplit(text, "\n")
    IN  IF text = <<>> THEN [ok |-> TRUE, topics |-> <<>>]
        ELSE [ok |-> \A i \in 1..Len(listed) : StartsWith(listed[i], <<"-", " ">>),
              topics |-> [i \in 1..Len(listed) |-> SubSeq(listed[i], 3, Len(listed[i]))]]

\* the topics the mapping `checks` gives for the extensions exts that have an entry
MappedTopics(checks, exts) == UNION { ToSet(checks[e]) : e \in ToSet(exts) \cap DOMAIN checks }

\* C11: for every file_extensions list, create_security_focused_prompt returns, and
\* the priority-check topics it lists, one '- topic' line each, are exactly the
\* union of the mapped topic lists of the extensions that have an entry, no topic
\* twice; an extension without an entry adds no topic and raises nothing.
C11_TopicsAreUnionOfMapped ==
    (call.op = "create_security_focused_prompt" /\ call.file_extensions.given) =>
        /\ ~result.raised
        /\ LET listed == ListedTopics(result.checks)
           IN  /\ listed.ok
               /\ \A i, j \in 1..Len(listed.topics) :
                      listed.topics[i] = listed.topics[j] => i = j
               /\ ToSet(listed.topics) =
                      MappedTopics(security_checks, call.file_extensions.val)

C11_Witness ==
    /\ call.op = "create_security_focused_prompt"
    /\ call.file_extensions = Given(<<ExtPy, ExtGo>>)
    /\ ~result.raised
    /\ result.checks = TopicLines(<<MemorySafety, XSS, SQLInjection, InputValidation,
                                    ConcurrencyIssues, Authentication, CSRF>>)

\* C12 (as claimed): the three renderers are total and deterministic: no call
\* raises, whatever the arguments (a missing description, a missing or empty
\* extension list), and a call on the arguments of the call before returns the
\* same document, byte for byte, the order of the listed extensions and topics
\* included.
C12_DeterministicAndTotal ==
    [][call'.op # "none" =>
          /\ ~result'.raised
          /\ call' = call => result' = result]_vars

----------------------------------------------------------------------------
(* Claims about the webhook route *)

\* the request carries the signature of its own body under the configured secret
SignatureIsValid(req) ==
    /\ req.signature.present
    /\ req.signature.ascii
    /\ req.signature.prefix = "sha256="
    /\ req.signature.digest = [key |-> WebhookSecret, payload |-> req.payload]

\* the body is a JSON object with every required field of a pull_request event
IsPullRequestEvent(payload) ==
    /\ payload.json = "object"
    /\ payload.action.type = "str"
    /\ \A field \in {payload.number, payload.pull_request, payload.repository, payload.sender} :
         field.type = "valid"

\* C13: handle_github_webhook queues a review task only for a request whose
\* signature validated, whose payload is a schema-valid pull_request event and whose
\* action is 'opened' or 'synchronize', and then queues exactly one, for that
\* payload; for every other action, every other payload and every rejected
\* request the queue stays as it was.
C13_QueuedOnlyForValidOpenedOrSynchronize ==
    [][(request' # request \/ Len(background_tasks') > Len(background_tasks)) =>
          IF /\ SignatureIsValid(request')
             /\ IsPullRequestEvent(request'.payload)
             /\ request'.payload.action.val \in {"opened", "synchronize"}
          THEN /\ background_tasks' =
                     Append(background_tasks,
                            [action |-> request'.payload.action.val,
                             body |-> request'.payload.pull_request.body])
               /\ response'.status = 200
          ELSE /\ background_tasks' = background_tasks
               /\ response'.detail # "Pull request review queued"]_vars

C13_Witness ==
    /\ Len(background_tasks) = 2
    /\ background_tasks[1].action = "synchronize"
    /\ request.method = "POST"
    /\ request.payload = PullRequestEvent(StrField("closed"), "text")
    /\ SignatureIsValid(request)
    /\ response = [status |-> 200, detail |-> "Ignoring action"]

----------------------------------------------------------------------------
(* The path-header lines *)

\* C14: a line that begins with '+++' or '---' is skipped in every state of the
\* parser, a hunk of the current file being open or not: reading it leaves the
\* result sequence, the current file, and the hunks, lines and counters of every
\* file as they were, and the loop goes on.
C14_PathHeaderLinesAreSkipped ==
    [][(/\ pc = "loop"
        /\ Len(lines') = Len(lines) + 1
        /\ \/ StartsWith(lines'[Len(lines')], PlusPlusPlus)
           \/ StartsWith(lines'[Len(lines')], MinusMinusMinus))
       => (/\ pc' = "loop"
           /\ files' = files
           /\ current_file' = current_file
           /\ heap' = heap)]_vars

\* a '+++' line was read while a hunk with one addition was open
C14_Witness ==
    /\ pc = "loop"
    /\ lines = <<LineDiffX, LineHunkFull, LineAdd, LinePlusHeader>>
    /\ current_file # None
    /\ Len(heap[current_file].changes) = 1
    /\ Len(heap[current_file].changes[1].lines) = 1
    /\ heap[current_file].additions = 1

----------------------------------------------------------------------------
(* Claims about the review task *)

\* the calls of a review in the order claimed
ReviewOrder == <<"get_pull_request_diff", "create_code_review_prompt", "analyze_code_diff",
                 "post_review_comment">>

IsPrefix(s, t) == Len(s) <= Len(t) /\ s = SubSeq(t, 1, Len(s))

\* the positions of a task that runs or has ended by returning
TaskPositions == {"fetch", "prompt", "review", "post", "done"}

\* C15: in every step of a review task, the calls made so far are a prefix of fetch
\* diff, build prompt, request AI review, post comment (so the comment is posted at
\* most once); the post is made only with a non-empty diff text and an AI review
\* at hand; a step that fails (no or empty diff, no review) or raises ends the task
\* with no post made after it, and the task always ends by returning, never by an
\* exception that leaves it.
C15_ReviewStepsInOrder ==
    [][(task' # task /\ task'.pc # "none") =>
          /\ IsPrefix(steps', ReviewOrder)
          /\ task'.pc \in TaskPositions
          /\ (\E k \in 1..Len(steps') : steps'[k] = "post_review_comment") =>
                 /\ task'.diff_content.given
                 /\ task'.diff_content.val # <<>>
                 /\ task'.ai_review.given
                 /\ task'.pc = "done"
          /\ task'.log = "Successfully posted review" => steps' = ReviewOrder
          /\ (task.pc = "fetch" /\ (~task'.diff_content.given \/ task'.diff_content.val = <<>>)) =>
                 (task'.pc = "done" /\ steps' = SubSeq(ReviewOrder, 1, 1))
          /\ (task.pc = "prompt" /\ ~task'.review_prompt.given) =>
                 (task'.pc = "done" /\ steps' = SubSeq(ReviewOrder, 1, 2))
          /\ (task.pc = "review" /\ ~task'.ai_review.given) =>
                 (task'.pc = "done" /\ steps' = SubSeq(ReviewOrder, 1, 3))
          /\ task'.log = "Error processing PR review" =>
                 (task'.pc = "done" /\ Len(steps') <= Len(steps) + 1)
          /\ task.pc = "post" => task'.pc = "done"]_vars

\* a review was posted for a pull request without a description, and another
\* review is waiting
C15_Witness ==
    /\ task.pc = "done"
    /\ task.log = "Successfully posted review"
    /\ task.github_payload.body = "none"
    /\ steps = ReviewOrder
    /\ background_tasks # <<>>

====
